---- MODULE Spec2Model ----
(***************************************************************************)
(* Stroke Secure: the field validators (utils/validation.py), the patient   *)
(* routes over the document store (routes/patient_routes.py,                *)
(* models/patient_model.py) and the lazily loaded stroke predictor          *)
(* (utils/model_predictor.py).                                              *)
(*                                                                          *)
(* Four specifications share the variables below:                           *)
(*   VSpec    one validator applied to one input value (pure functions);    *)
(*   FSpec    the add / edit / delete routes over the patient store;        *)
(*   Spec     concurrent predict_stroke requests sharing the predictor;     *)
(*   SeqSpec  the same requests served one after the other.                 *)
(***************************************************************************)
EXTENDS Integers, Sequences, FiniteSets, TLC

VARIABLES
    input,      \* VSpec: the value handed to the validator
    vname,      \* VSpec: the validator last called ("" before any call)
    vres,       \* VSpec: what that call returned (or raised)
    first,      \* PSpec: the first validator called and what it returned
    patients,   \* the patients collection: ObjectId string -> document
    nextId,     \* number of ObjectIds the store has generated so far
    req,        \* FSpec: the HTTP request in flight (NoReq when none)
    resp,       \* FSpec: the last response (flash message, page)
    dbops,      \* the patient_model calls made for the request handled last
    fs,         \* file system: path -> what is stored at the path
    predictor,  \* module global _predictor: 0 (None) or an instance number
    instances,  \* StrokePredictor objects: sequence of [model_path, threshold, model]
    reads,      \* number of joblib.load calls performed (storage reads)
    calls,      \* number of predict_stroke requests started
    pc,         \* per request thread: position in predict_stroke
    local,      \* per request thread: its local variables
    users,      \* the users table: sequence of rows [id, username, password]
    nextUid,    \* the next AUTOINCREMENT id of the users table
    apc,        \* per request thread: position in register
    alocal,     \* per request thread: the local variables of register
    made,       \* the [username, password] pairs for which User.create returned True
    ucall       \* the User model call made last and what it returned

valVars  == <<input, vname, vres, first>>
formVars == <<req, resp, dbops>>
storeVars == <<patients, nextId>>
predVars == <<fs, predictor, instances, reads, calls, pc, local>>
authVars == <<users, nextUid, apc, alocal, made, ucall>>
vars == <<input, vname, vres, first, patients, nextId, req, resp, dbops,
          fs, predictor, instances, reads, calls, pc, local, users, nextUid, apc, alocal,
          made, ucall>>

(***************************************************************************)
(* Bounds of the model.                                                     *)
(***************************************************************************)
MaxLen == 3         \* validator inputs: every string over Alphabet up to this length
MaxPatients == 2    \* documents the store ever creates
NThreads == 2       \* concurrent request threads
MaxCalls == 3       \* predict_stroke requests started in one behaviour
MaxMissing == 1     \* SeqSpec: feature fields absent from the stored document (or all nine)

(***************************************************************************)
(* Python values.  A str is a sequence of one-character strings; a float   *)
(* is n * 10^e (e <= 0, normalised) or one of nan, inf, -inf.              *)
(***************************************************************************)
PyNone == [t |-> "none", s |-> <<>>, n |-> 0, e |-> 0, k |-> "fin"]
PyStr(s) == [t |-> "str", s |-> s, n |-> 0, e |-> 0, k |-> "fin"]
PyInt(n) == [t |-> "int", s |-> <<>>, n |-> n, e |-> 0, k |-> "fin"]

RECURSIVE Pow10(_)
Pow10(k) == IF k <= 0 THEN 1 ELSE 10 * Pow10(k - 1)

RECURSIVE NormFloat(_, _)
NormFloat(n, e) ==
    IF n = 0 THEN [n |-> 0, e |-> 0]
    ELSE IF e < 0 /\ n % 10 = 0 THEN NormFloat(n \div 10, e + 1)
    ELSE [n |-> n, e |-> e]

FiniteFloat(nf) == [t |-> "float", s |-> <<>>, n |-> nf.n, e |-> nf.e, k |-> "fin"]
PyFloat(n, e) == FiniteFloat(NormFloat(n, e))
PyNaN == [t |-> "float", s |-> <<>>, n |-> 0, e |-> 0, k |-> "nan"]
PyInf == [t |-> "float", s |-> <<>>, n |-> 0, e |-> 0, k |-> "inf"]
PyNegInf == [t |-> "float", s |-> <<>>, n |-> 0, e |-> 0, k |-> "ninf"]

\* bool(x): None, "", 0 and 0.0 are falsy; nan and the infinities are truthy
Truthy(x) ==
    CASE x.t = "none" -> FALSE
      [] x.t = "str" -> Len(x.s) > 0
      [] x.t = "int" -> x.n # 0
      [] OTHER -> x.k # "fin" \/ x.n # 0

\* x < 0 and x > b for a float x and an integer b (every comparison with nan is False)
FloatLtZero(x) == x.k = "ninf" \/ (x.k = "fin" /\ x.n < 0)
FloatGt(x, b) == x.k = "inf" \/ (x.k = "fin" /\ x.n > b * Pow10(0 - x.e))

(***************************************************************************)
(* Characters and the str methods the code uses.                            *)
(***************************************************************************)
DigitSeq == <<"0", "1", "2", "3", "4", "5", "6", "7", "8", "9">>
Digit == {DigitSeq[i] : i \in 1..10}
DigitVal(c) == (CHOOSE i \in 1..10 : DigitSeq[i] = c) - 1
LowerSeq == <<"a", "b", "c", "d", "e", "f", "g", "h", "i", "j", "k", "l", "m",
             "n", "o", "p", "q", "r", "s", "t", "u", "v", "w", "x", "y", "z">>
UpperSeq == <<"A", "B", "C", "D", "E", "F", "G", "H", "I", "J", "K", "L", "M",
             "N", "O", "P", "Q", "R", "S", "T", "U", "V", "W", "X", "Y", "Z">>
Lower == {LowerSeq[i] : i \in 1..26}
Upper == {UpperSeq[i] : i \in 1..26}
Letter == Lower \cup Upper
Whitespace == {" ", "\t", "\n", "\r"}
HexDigit == Digit \cup {"a", "b", "c", "d", "e", "f", "A", "B", "C", "D", "E", "F"}

RECURSIVE LStrip(_)
LStrip(s) == IF Len(s) > 0 /\ s[1] \in Whitespace THEN LStrip(Tail(s)) ELSE s
RECURSIVE RStrip(_)
RStrip(s) ==
    IF Len(s) > 0 /\ s[Len(s)] \in Whitespace THEN RStrip(SubSeq(s, 1, Len(s) - 1)) ELSE s
\* str.strip()
Strip(s) == RStrip(LStrip(s))

\* a run of decimal digits in which single underscores may separate digits
IsDigitRun(s) ==
    /\ Len(s) > 0
    /\ s[1] \in Digit
    /\ s[Len(s)] \in Digit
    /\ \A i \in 1..Len(s) : s[i] \in Digit \cup {"_"}
    /\ \A i \in 1..(Len(s) - 1) : ~(s[i] = "_" /\ s[i + 1] = "_")

RECURSIVE DigitRunValue(_, _)
DigitRunValue(s, acc) ==
    IF Len(s) = 0 THEN acc
    ELSE IF s[1] = "_" THEN DigitRunValue(Tail(s), acc)
    ELSE DigitRunValue(Tail(s), 10 * acc + DigitVal(s[1]))

RECURSIVE CountDigits(_)
CountDigits(s) ==
    IF Len(s) = 0 THEN 0
    ELSE (IF s[1] \in Digit THEN 1 ELSE 0) + CountDigits(Tail(s))

HasSign(b) == Len(b) > 0 /\ b[1] \in {"+", "-"}
Unsigned(b) == IF HasSign(b) THEN Tail(b) ELSE b
SignOf(b) == IF Len(b) > 0 /\ b[1] = "-" THEN 0 - 1 ELSE 1

\* int(str): surrounding whitespace, an optional sign, a digit run
ParseIntStripped(b) ==
    IF IsDigitRun(Unsigned(b))
    THEN [ok |-> TRUE, n |-> SignOf(b) * DigitRunValue(Unsigned(b), 0)]
    ELSE [ok |-> FALSE, n |-> 0]
ParseInt(s) == ParseIntStripped(Strip(s))

\* str.lower(), one character
LowerChar(c) ==
    IF c \in Upper THEN LowerSeq[CHOOSE i \in 1..26 : UpperSeq[i] = c] ELSE c
LowerStr(s) == [i \in 1..Len(s) |-> LowerChar(s[i])]

DotAt(s) == IF \E i \in 1..Len(s) : s[i] = "."
            THEN CHOOSE i \in 1..Len(s) : s[i] = "." /\ \A j \in 1..(i - 1) : s[j] # "."
            ELSE 0

\* the decimal literal with integer part ip and fraction part fp
ParseDecimal(sign, ip, fp) ==
    IF /\ (ip = <<>> \/ IsDigitRun(ip))
       /\ (fp = <<>> \/ IsDigitRun(fp))
       /\ ~(ip = <<>> /\ fp = <<>>)
    THEN [ok |-> TRUE,
          v |-> PyFloat(sign * (DigitRunValue(ip, 0) * Pow10(CountDigits(fp)) + DigitRunValue(fp, 0)),
                        0 - CountDigits(fp))]
    ELSE [ok |-> FALSE, v |-> PyNone]

ParseFloatBody(sign, body, d) ==
    IF LowerStr(body) = <<"n", "a", "n">> THEN [ok |-> TRUE, v |-> PyNaN]
    ELSE IF LowerStr(body) \in {<<"i", "n", "f">>, <<"i", "n", "f", "i", "n", "i", "t", "y">>}
    THEN [ok |-> TRUE, v |-> IF sign < 0 THEN PyNegInf ELSE PyInf]
    ELSE ParseDecimal(sign,
                      IF d = 0 THEN body ELSE SubSeq(body, 1, d - 1),
                      IF d = 0 THEN <<>> ELSE SubSeq(body, d + 1, Len(body)))

ParseFloatStripped(b) == ParseFloatBody(SignOf(b), Unsigned(b), DotAt(Unsigned(b)))

\* float(str): surrounding whitespace, an optional sign, then nan / inf / infinity
\* or a decimal literal digits[.digits] | .digits | digits.  (The strings of the
\* model hold no exponent letter, so the exponent form is not parsed.)
ParseFloat(s) == ParseFloatStripped(Strip(s))

IntOfParse(p) == IF p.ok THEN [exc |-> "", n |-> p.n] ELSE [exc |-> "ValueError", n |-> 0]
FloatOfParse(p) == IF p.ok THEN [exc |-> "", v |-> p.v] ELSE [exc |-> "ValueError", v |-> PyNone]

\* int(x) for any value: [exc |-> "" | exception, n |-> the integer]
ToInt(x) ==
    CASE x.t = "none" -> [exc |-> "TypeError", n |-> 0]
      [] x.t = "int" -> [exc |-> "", n |-> x.n]
      [] x.t = "str" -> IntOfParse(ParseInt(x.s))
      [] OTHER ->
           IF x.k = "nan" THEN [exc |-> "ValueError", n |-> 0]
           ELSE IF x.k # "fin" THEN [exc |-> "OverflowError", n |-> 0]
           ELSE IF x.n >= 0 THEN [exc |-> "", n |-> x.n \div Pow10(0 - x.e)]
           ELSE [exc |-> "", n |-> 0 - ((0 - x.n) \div Pow10(0 - x.e))]

\* float(x) for any value: [exc |-> "" | exception, v |-> the float]
ToFloat(x) ==
    CASE x.t = "none" -> [exc |-> "TypeError", v |-> PyNone]
      [] x.t = "int" -> [exc |-> "", v |-> PyFloat(x.n, 0)]
      [] x.t = "str" -> FloatOfParse(ParseFloat(x.s))
      [] OTHER -> [exc |-> "", v |-> x]

(***************************************************************************)
(* utils/validation.py.  A validator returns (is_valid, message) or         *)
(* (is_valid, message, coerced value), or raises.  A message is the         *)
(* sequence of fragments whose concatenation is the Python string; the      *)
(* substrings the callers and tests look for are fragments of their own.    *)
(***************************************************************************)
MIN_NAME_LEN == 2
MAX_NAME_LEN == 100
MAX_AGE == 150
MAX_GLUCOSE == 500
MAX_BMI == 100
OID_HEX_LEN == 24

Ret2(valid, msg) == [exc |-> "", valid |-> valid, msg |-> msg, val |-> PyNone, arity |-> 2]
Ret3(valid, msg, val) == [exc |-> "", valid |-> valid, msg |-> msg, val |-> val, arity |-> 3]
Raised(exc) == [exc |-> exc, valid |-> FALSE, msg |-> <<>>, val |-> PyNone, arity |-> 0]

\* sub in msg, for a substring that is one fragment of the message
Contains(msg, sub) == \E i \in 1..Len(msg) : msg[i] = sub

\* ", ".join(strs), as fragments: each member's characters, then the separator
RECURSIVE Join(_, _)
Join(strs, sep) ==
    IF Len(strs) = 0 THEN <<>>
    ELSE IF Len(strs) = 1 THEN strs[1]
    ELSE strs[1] \o <<sep>> \o Join(Tail(strs), sep)

\* value in list, comparing without regard to case
InListIgnoreCase(x, strs) ==
    x.t = "str" /\ \E i \in 1..Len(strs) : LowerStr(strs[i]) = LowerStr(x.s)

\* value in list, for a list of str
InList(x, strs) == x.t = "str" /\ \E i \in 1..Len(strs) : strs[i] = x.s

NameChar == Letter \cup Whitespace \cup {"-", "'"}
\* re.match(r'^[a-zA-Z\s\-\']+$', s)
NameRegexMatch(s) == Len(s) > 0 /\ \A i \in 1..Len(s) : s[i] \in NameChar

\* validate_patient_name matching the pattern against name instead of name.strip()
validate_patient_name_untrimmed(name) ==
    IF ~Truthy(name) THEN Ret2(FALSE, <<"Patient name is ", "required">>)
    ELSE IF name.t # "str" THEN Raised("TypeError")
    ELSE IF Len(name.s) < MIN_NAME_LEN
    THEN Ret2(FALSE, <<"Name must be at least ", "2 characters", " long">>)
    ELSE IF Len(name.s) > MAX_NAME_LEN THEN Ret2(FALSE, <<"Name is too long">>)
    ELSE IF ~NameRegexMatch(name.s)
    THEN Ret2(FALSE, <<"Name can only contain ", "letters", ", spaces, hyphens, and apostrophes">>)
    ELSE Ret2(TRUE, <<>>)

validate_patient_name(name) ==
    IF ~Truthy(name) THEN Ret2(FALSE, <<"Patient name is ", "required">>)
    ELSE IF name.t # "str" THEN Raised("TypeError")
    ELSE IF Len(name.s) < MIN_NAME_LEN
    THEN Ret2(FALSE, <<"Name must be at least ", "2 characters", " long">>)
    ELSE IF Len(name.s) > MAX_NAME_LEN THEN Ret2(FALSE, <<"Name is too long">>)
    ELSE IF ~NameRegexMatch(Strip(name.s))
    THEN Ret2(FALSE, <<"Name can only contain ", "letters", ", spaces, hyphens, and apostrophes">>)
    ELSE Ret2(TRUE, <<>>)

validate_patient_age(age) ==
    IF ~Truthy(age) THEN Ret3(FALSE, <<"Age is ", "required">>, PyNone)
    ELSE LET c == ToInt(age)
         IN  IF c.exc \in {"ValueError", "TypeError"}
             THEN Ret3(FALSE, <<"Age must be a valid ", "number">>, PyNone)
             ELSE IF c.exc # "" THEN Raised(c.exc)
             ELSE IF c.n < 0 THEN Ret3(FALSE, <<"Age cannot be ", "negative">>, PyNone)
             ELSE IF c.n > MAX_AGE
             THEN Ret3(FALSE, <<"Age must be a reasonable value (less than ", "150", ")">>, PyNone)
             ELSE Ret3(TRUE, <<>>, PyInt(c.n))

\* bson's ObjectId.is_valid: a str of 24 hexadecimal characters (any other
\* value of the model's types makes ObjectId() raise, which is_valid catches)
ObjectIdIsValid(oid) ==
    /\ oid.t = "str"
    /\ Len(oid.s) = OID_HEX_LEN
    /\ \A i \in 1..Len(oid.s) : oid.s[i] \in HexDigit

validate_object_id(oid) ==
    IF ~Truthy(oid) THEN Ret2(FALSE, <<"ID is ", "required">>)
    ELSE IF ~ObjectIdIsValid(oid) THEN Ret2(FALSE, <<"Invalid", " patient ID format">>)
    ELSE Ret2(TRUE, <<>>)

valid_genders == <<<<"M", "a", "l", "e">>,
    <<"F", "e", "m", "a", "l", "e">>,
    <<"O", "t", "h", "e", "r">>>>

valid_married == <<<<"N", "o">>,
    <<"Y", "e", "s">>>>

valid_work_types == <<<<"C", "h", "i", "l", "d", "r", "e", "n">>,
    <<"G", "o", "v", "t", "_", "j", "o", "b">>,
    <<"N", "e", "v", "e", "r", "_", "w", "o", "r", "k", "e", "d">>,
    <<"P", "r", "i", "v", "a", "t", "e">>,
    <<"S", "e", "l", "f", "-", "e", "m", "p", "l", "o", "y", "e", "d">>>>

valid_residence_types == <<<<"R", "u", "r", "a", "l">>,
    <<"U", "r", "b", "a", "n">>>>

valid_statuses == <<<<"F", "o", "r", "m", "e", "r", "l", "y", " ", "s", "m", "o", "k", "e", "d">>,
    <<"N", "e", "v", "e", "r", " ", "s", "m", "o", "k", "e", "d">>,
    <<"S", "m", "o", "k", "e", "s">>,
    <<"U", "n", "k", "n", "o", "w", "n">>>>

validate_gender(gender) ==
    IF ~InList(gender, valid_genders)
    THEN Ret2(FALSE, <<"Gender must be one of: ">> \o Join(valid_genders, ", "))
    ELSE Ret2(TRUE, <<>>)

validate_hypertension(hypertension) ==
    IF hypertension.t = "none" \/ hypertension = PyStr(<<>>)
    THEN Ret3(FALSE, <<"Hypertension value is ", "required">>, PyNone)
    ELSE LET c == ToInt(hypertension)
         IN  IF c.exc \in {"ValueError", "TypeError"}
             THEN Ret3(FALSE, <<"Hypertension must be 0 (No) or 1 (Yes)">>, PyNone)
             ELSE IF c.exc # "" THEN Raised(c.exc)
             ELSE IF c.n \notin {0, 1}
             THEN Ret3(FALSE, <<"Hypertension must be 0 (No) or 1 (Yes)">>, PyNone)
             ELSE Ret3(TRUE, <<>>, PyInt(c.n))

validate_ever_married(ever_married) ==
    IF ~InList(ever_married, valid_married)
    THEN Ret2(FALSE, <<"Ever married must be one of: ">> \o Join(valid_married, ", "))
    ELSE Ret2(TRUE, <<>>)

validate_work_type(work_type) ==
    IF ~InList(work_type, valid_work_types)
    THEN Ret2(FALSE, <<"Work type must be one of: ">> \o Join(valid_work_types, ", "))
    ELSE Ret2(TRUE, <<>>)

validate_residence_type(residence_type) ==
    IF ~InList(residence_type, valid_residence_types)
    THEN Ret2(FALSE, <<"Residence type must be one of: ">> \o Join(valid_residence_types, ", "))
    ELSE Ret2(TRUE, <<>>)

validate_avg_glucose_level(glucose_level) ==
    IF ~Truthy(glucose_level)
    THEN Ret3(FALSE, <<"Average glucose level is ", "required">>, PyNone)
    ELSE LET c == ToFloat(glucose_level)
         IN  IF c.exc \in {"ValueError", "TypeError"}
             THEN Ret3(FALSE, <<"Glucose level must be a valid ", "number">>, PyNone)
             ELSE IF c.exc # "" THEN Raised(c.exc)
             ELSE IF FloatLtZero(c.v)
             THEN Ret3(FALSE, <<"Glucose level cannot be ", "negative">>, PyNone)
             ELSE IF FloatGt(c.v, MAX_GLUCOSE)
             THEN Ret3(FALSE, <<"Glucose level must be a reasonable value (less than ", "500", ")">>,
                       PyNone)
             ELSE Ret3(TRUE, <<>>, c.v)

\* validate_bmi without its "if not bmi" check
validate_bmi_unchecked(bmi) ==
    LET c == ToFloat(bmi)
    IN  IF c.exc \in {"ValueError", "TypeError"}
        THEN Ret3(FALSE, <<"BMI must be a valid ", "number">>, PyNone)
        ELSE IF c.exc # "" THEN Raised(c.exc)
        ELSE IF FloatLtZero(c.v) THEN Ret3(FALSE, <<"BMI cannot be ", "negative">>, PyNone)
        ELSE IF FloatGt(c.v, MAX_BMI)
        THEN Ret3(FALSE, <<"BMI must be a reasonable value (less than ", "100", ")">>, PyNone)
        ELSE Ret3(TRUE, <<>>, c.v)

validate_bmi(bmi) ==
    IF ~Truthy(bmi) THEN Ret3(FALSE, <<"BMI is ", "required">>, PyNone)
    ELSE LET c == ToFloat(bmi)
         IN  IF c.exc \in {"ValueError", "TypeError"}
             THEN Ret3(FALSE, <<"BMI must be a valid ", "number">>, PyNone)
             ELSE IF c.exc # "" THEN Raised(c.exc)
             ELSE IF FloatLtZero(c.v) THEN Ret3(FALSE, <<"BMI cannot be ", "negative">>, PyNone)
             ELSE IF FloatGt(c.v, MAX_BMI)
             THEN Ret3(FALSE, <<"BMI must be a reasonable value (less than ", "100", ")">>, PyNone)
             ELSE Ret3(TRUE, <<>>, c.v)

\* validate_smoking_status answering from the verdict of the call before it
validate_smoking_status_cached(smoking_status) ==
    IF vname # "" THEN Ret2(vres.valid, vres.msg)
    ELSE IF ~InList(smoking_status, valid_statuses)
    THEN Ret2(FALSE, <<"Smoking status must be one of: ">> \o Join(valid_statuses, ", "))
    ELSE Ret2(TRUE, <<>>)

validate_smoking_status(smoking_status) ==
    IF ~InList(smoking_status, valid_statuses)
    THEN Ret2(FALSE, <<"Smoking status must be one of: ">> \o Join(valid_statuses, ", "))
    ELSE Ret2(TRUE, <<>>)

(***************************************************************************)
(* models/patient_model.py: the patients collection.  A document maps      *)
(* field names to values; its _id is its key in the collection.             *)
(***************************************************************************)
Fields == <<"name", "age", "gender", "hypertension", "ever_married", "work_type",
            "residence_type", "avg_glucose_level", "bmi", "smoking_status">>
FieldSet == {Fields[i] : i \in 1..Len(Fields)}
NoDoc == [f \in {} |-> PyNone]
NoPatients == [o \in {} |-> NoDoc]

\* the i-th ObjectId the store generates, as its 24-character hex string
Oid(i) == [j \in 1..OID_HEX_LEN |-> IF j = OID_HEX_LEN THEN DigitSeq[i + 1] ELSE "0"]

\* ObjectId(pid): [ok, key]; the key is the id's canonical (lower-case) hex string
ObjectId(pid) ==
    IF ObjectIdIsValid(PyStr(pid)) THEN [ok |-> TRUE, key |-> LowerStr(pid)]
    ELSE [ok |-> FALSE, key |-> <<>>]

\* get_patient(pid): the document, or NoDoc (None) when the id is malformed or unknown
get_patient(store, pid) ==
    LET o == ObjectId(pid)
    IN  IF o.ok /\ o.key \in DOMAIN store THEN store[o.key] ELSE NoDoc

\* create_patient(data): insert_one under a fresh ObjectId
create_patient(store, n, data) ==
    [o \in DOMAIN store \cup {Oid(n + 1)} |-> IF o = Oid(n + 1) THEN data ELSE store[o]]

\* the document after {"$set": data}
SetFields(doc, data) ==
    [f \in DOMAIN doc \cup DOMAIN data |-> IF f \in DOMAIN data THEN data[f] ELSE doc[f]]

\* update_patient(pid, data): [store, modified_count]; None (count 0) on a bad id
update_patient(store, pid, data) ==
    LET o == ObjectId(pid)
    IN  IF o.ok /\ o.key \in DOMAIN store
        THEN [store |-> [store EXCEPT ![o.key] = SetFields(store[o.key], data)],
              modified |-> IF SetFields(store[o.key], data) # store[o.key] THEN 1 ELSE 0]
        ELSE [store |-> store, modified |-> 0]

\* delete_patient(pid): [store, deleted_count]
delete_patient(store, pid) ==
    LET o == ObjectId(pid)
    IN  IF o.ok /\ o.key \in DOMAIN store
        THEN [store |-> [k \in DOMAIN store \ {o.key} |-> store[k]], deleted |-> 1]
        ELSE [store |-> store, deleted |-> 0]

(***************************************************************************)
(* routes/patient_routes.py: add_patient, edit_patient, delete.             *)
(***************************************************************************)
NoForm == [f \in {} |-> <<>>]
NoReq == [route |-> "none", method |-> "", id |-> <<>>, form |-> NoForm]
NoResp == [status |-> 0, page |-> "", flash |-> <<>>, category |-> ""]
Render(page, flash, category) ==
    [status |-> 200, page |-> page, flash |-> flash, category |-> category]
Redirect(flash, category) ==
    [status |-> 302, page |-> "/patients", flash |-> flash, category |-> category]
ServerError == [status |-> 500, page |-> "", flash |-> <<>>, category |-> ""]

\* request.form.get(f, "")
FormGet(form, f) == IF f \in DOMAIN form THEN form[f] ELSE <<>>
StrippedFields == {"name", "age", "avg_glucose_level", "bmi"}
\* the value the route hands to the field's validator
FieldValue(form, f) ==
    PyStr(IF f \in StrippedFields THEN Strip(FormGet(form, f)) ELSE FormGet(form, f))

ValidateField(f, x) ==
    CASE f = "name" -> validate_patient_name(x)
      [] f = "age" -> validate_patient_age(x)
      [] f = "gender" -> validate_gender(x)
      [] f = "hypertension" -> validate_hypertension(x)
      [] f = "ever_married" -> validate_ever_married(x)
      [] f = "work_type" -> validate_work_type(x)
      [] f = "residence_type" -> validate_residence_type(x)
      [] f = "avg_glucose_level" -> validate_avg_glucose_level(x)
      [] f = "bmi" -> validate_bmi(x)
      [] f = "smoking_status" -> validate_smoking_status(x)

\* "Validate all inputs": the ten validator results of a submission
ValidateAll(form) == [f \in FieldSet |-> ValidateField(f, FieldValue(form, f))]

\* "Check all validations" with the bmi check left out
FirstInvalidSkipsBmi(results) ==
    IF \E i \in 1..Len(Fields) : Fields[i] # "bmi" /\ ~results[Fields[i]].valid
    THEN CHOOSE i \in 1..Len(Fields) :
            /\ Fields[i] # "bmi" /\ ~results[Fields[i]].valid
            /\ \A j \in 1..(i - 1) : Fields[j] = "bmi" \/ results[Fields[j]].valid
    ELSE 0

\* "Check all validations": the index in Fields of the first field the route
\* rejects, 0 when it rejects none
FirstInvalid(results) ==
    IF \E i \in 1..Len(Fields) : ~results[Fields[i]].valid
    THEN CHOOSE i \in 1..Len(Fields) :
            /\ ~results[Fields[i]].valid
            /\ \A j \in 1..(i - 1) : results[Fields[j]].valid
    ELSE 0

\* the patient_data dictionary: coerced values for the three-tuple validators
PatientData(form, results) ==
    [f \in FieldSet |->
        IF results[f].arity = 3 THEN results[f].val ELSE FieldValue(form, f)]

\* the POST branch shared by add_patient and edit_patient up to patient_data,
\* given the ten validator results: [raised, bad (index of the rejected
\* field), flash, data]
Submission(form, results) ==
    LET bad == FirstInvalid(results)
    IN  [raised |-> \E f \in FieldSet : results[f].exc # "",
         bad |-> bad,
         flash |-> IF bad = 0 THEN <<>> ELSE results[Fields[bad]].msg,
         data |-> PatientData(form, results)]

\* a call of a patient_model function with the id it was given
DbOp(op, id) == [op |-> op, id |-> id]
\* a request arrives
Submit(r) ==
    /\ req = NoReq
    /\ req' = r
    /\ resp' = NoResp
    /\ dbops' = {}
    /\ UNCHANGED <<authVars, valVars, storeVars, predVars>>

add_patient(dbok) ==
    /\ req.route = "add"
    /\ \E results \in {ValidateAll(req.form)} :
       LET sub == Submission(req.form, results)
       IN  IF req.method = "GET"
           THEN /\ resp' = Render("patients/add.html", <<>>, "")
                /\ dbops' = {}
                /\ UNCHANGED storeVars
           ELSE IF sub.raised
           THEN resp' = ServerError /\ dbops' = {} /\ UNCHANGED storeVars
           ELSE IF sub.bad # 0
           THEN /\ resp' = Render("patients/add.html", sub.flash, "danger")
                /\ dbops' = {}
                /\ UNCHANGED storeVars
           ELSE IF dbok
           THEN /\ nextId < MaxPatients
                /\ patients' = create_patient(patients, nextId, sub.data)
                /\ nextId' = nextId + 1
                /\ dbops' = {DbOp("create_patient", <<>>)}
                /\ resp' = Redirect(<<"Patient added successfully!">>, "success")
           ELSE /\ resp' = Render("patients/add.html",
                                  <<"Error adding patient. Please try again.">>, "danger")
                /\ dbops' = {DbOp("create_patient", <<>>)}
                /\ UNCHANGED storeVars
    /\ req' = NoReq
    /\ UNCHANGED <<authVars, valVars, predVars>>

edit_patient(dbok) ==
    /\ req.route = "edit"
    /\ \E results \in {ValidateAll(req.form)} :
       LET idv == validate_object_id(PyStr(req.id))
           patient == get_patient(patients, req.id)
           sub == Submission(req.form, results)
           upd == IF dbok THEN update_patient(patients, req.id, sub.data)
                  ELSE [store |-> patients, modified |-> 0]
       IN  IF ~idv.valid
           THEN resp' = Redirect(idv.msg, "danger") /\ dbops' = {} /\ UNCHANGED storeVars
           ELSE IF patient = NoDoc
           THEN /\ resp' = Redirect(<<"Patient not found.">>, "danger")
                /\ dbops' = {DbOp("get_patient", req.id)}
                /\ UNCHANGED storeVars
           ELSE IF req.method = "GET"
           THEN /\ resp' = Render("patients/edit.html", <<>>, "")
                /\ dbops' = {DbOp("get_patient", req.id)}
                /\ UNCHANGED storeVars
           ELSE IF sub.raised
           THEN /\ resp' = ServerError
                /\ dbops' = {DbOp("get_patient", req.id)}
                /\ UNCHANGED storeVars
           ELSE IF sub.bad # 0
           THEN /\ resp' = Render("patients/edit.html", sub.flash, "danger")
                /\ dbops' = {DbOp("get_patient", req.id)}
                /\ UNCHANGED storeVars
           ELSE /\ patients' = upd.store
                /\ resp' = IF upd.modified > 0
                           THEN Redirect(<<"Patient updated successfully!">>, "success")
                           ELSE Redirect(<<"No changes were made.">>, "info")
                /\ dbops' = {DbOp("get_patient", req.id), DbOp("update_patient", req.id)}
                /\ UNCHANGED nextId
    /\ req' = NoReq
    /\ UNCHANGED <<authVars, valVars, predVars>>

\* delete without the validate_object_id check
delete_unchecked(dbok) ==
    /\ req.route = "delete"
    /\ LET del == IF dbok THEN delete_patient(patients, req.id)
                  ELSE [store |-> patients, deleted |-> 0]
       IN  /\ patients' = del.store
           /\ resp' = IF del.deleted > 0
                      THEN Redirect(<<"Patient deleted successfully!">>, "success")
                      ELSE Redirect(<<"Patient not found.">>, "danger")
           /\ UNCHANGED nextId
    /\ dbops' = {DbOp("delete_patient", req.id)}
    /\ req' = NoReq
    /\ UNCHANGED <<authVars, valVars, predVars>>

delete(dbok) ==
    /\ req.route = "delete"
    /\ LET idv == validate_object_id(PyStr(req.id))
           del == IF dbok THEN delete_patient(patients, req.id)
                  ELSE [store |-> patients, deleted |-> 0]
       IN  IF ~idv.valid
           THEN resp' = Redirect(idv.msg, "danger") /\ UNCHANGED storeVars
           ELSE /\ patients' = del.store
                /\ resp' = IF del.deleted > 0
                           THEN Redirect(<<"Patient deleted successfully!">>, "success")
                           ELSE Redirect(<<"Patient not found.">>, "danger")
                /\ UNCHANGED nextId
    /\ dbops' = IF validate_object_id(PyStr(req.id)).valid
                THEN {DbOp("delete_patient", req.id)} ELSE {}
    /\ req' = NoReq
    /\ UNCHANGED <<authVars, valVars, predVars>>

(***************************************************************************)
(* utils/model_predictor.py.  Probabilities and thresholds are integers in  *)
(* units of 1 / ProbScale.  An artifact on disk is [kind, base]:            *)
(*   missing   no file at the path                                          *)
(*   corrupt   a file joblib.load cannot deserialize                        *)
(*   pipeline  a fitted pipeline with predict_proba                         *)
(*   noproba   an estimator without predict_proba                           *)
(*   null      a pickled None                                               *)
(* A loaded object is [id, art]: id numbers the joblib.load call that made  *)
(* it (two loads give two objects), id 0 is None.                           *)
(***************************************************************************)
ProbScale == 10000000
PREDICTION_THRESHOLD == 7500000
MODEL_PATH == "modeltraining/stroke_model.pkl"
OTHER_PATH == "tests/stub_model.pkl"
Paths == {MODEL_PATH, OTHER_PATH}

Art(kind, base) == [kind |-> kind, base |-> base]
MissingArt == Art("missing", 0)
NoModel == [id |-> 0, art |-> MissingArt]

NoExc == [type |-> "", msg |-> <<>>, cause |-> ""]
\* the exception load_model raises when the path does not exist
NotFoundError(path) ==
    [type |-> "FileNotFoundError",
     msg |-> <<"Model file not found at ", path,
               ". Please export stroke_model.pkl from the training notebook into modeltraining/.">>,
     cause |-> ""]
\* the exception load_model raises when joblib.load raised exc
LoadError(exc) ==
    [type |-> "FileNotFoundError", msg |-> <<"Error loading model: ", exc>>, cause |-> exc]
\* the exception predict raises when predict_proba is missing
CapabilityError ==
    [type |-> "RuntimeError", msg |-> <<"Loaded model does not expose predict_proba">>,
     cause |-> "AttributeError"]

\* StrokePredictor.__init__
StrokePredictor(model_path, threshold) ==
    [model_path |-> model_path, threshold |-> threshold, model |-> NoModel]

\* load_model without "if not self.model_path.exists()"
LoadModelCheckNoExists(self, files) ==
    IF self.model # NoModel THEN [next |-> "cached", exc |-> NoExc]
    ELSE [next |-> "load", exc |-> NoExc]

\* load_model without "if self.model is not None: return"
LoadModelCheckNoCache(self, files) ==
    IF files[self.model_path].kind = "missing"
    THEN [next |-> "raise", exc |-> NotFoundError(self.model_path)]
    ELSE [next |-> "load", exc |-> NoExc]

\* load_model up to the existence check: "cached" (return), "raise" or "load"
LoadModelCheck(self, files) ==
    IF self.model # NoModel THEN [next |-> "cached", exc |-> NoExc]
    ELSE IF files[self.model_path].kind = "missing"
    THEN [next |-> "raise", exc |-> NotFoundError(self.model_path)]
    ELSE [next |-> "load", exc |-> NoExc]

\* joblib.load(path), the n-th load of the process: [exc, obj]
JoblibLoad(files, path, n) ==
    CASE files[path].kind = "missing" -> [exc |-> "FileNotFoundError", obj |-> NoModel]
      [] files[path].kind = "corrupt" -> [exc |-> "UnpicklingError", obj |-> NoModel]
      [] files[path].kind = "null" -> [exc |-> "", obj |-> NoModel]
      [] OTHER -> [exc |-> "", obj |-> [id |-> n, art |-> files[path]]]

\* dict.get(key)
DictGet(d, key) == IF key \in DOMAIN d THEN d[key] ELSE PyNone

\* _as_float catching ValueError only
FloatOrDefaultValueOnly(c) ==
    IF c.exc \in {"ValueError"} THEN [exc |-> "", v |-> PyFloat(0, 0)] ELSE c

FloatOrDefault(c) ==
    IF c.exc \in {"TypeError", "ValueError"} THEN [exc |-> "", v |-> PyFloat(0, 0)] ELSE c
_as_float(value) == FloatOrDefault(ToFloat(value))

IntOrDefault(c) ==
    IF c.exc \in {"TypeError", "ValueError"} THEN [exc |-> "", v |-> PyInt(0)]
    ELSE [exc |-> c.exc, v |-> PyInt(c.n)]
_as_int(value) == IntOrDefault(ToInt(value))

FeatureKeys == <<"gender", "age", "hypertension", "ever_married", "work_type",
                 "Residence_type", "avg_glucose_level", "bmi", "smoking_status">>

\* the first exception among the coercions, "" when none raised
FirstExc(excs) ==
    IF \E i \in 1..Len(excs) : excs[i] # ""
    THEN excs[CHOOSE i \in 1..Len(excs) : excs[i] # "" /\ \A j \in 1..(i - 1) : excs[j] = ""]
    ELSE ""

\* the payload of prepare_features, given the four coerced numeric fields
Payload(patient_data, age, hyp, glu, bmi) ==
    [exc |-> FirstExc(<<age.exc, hyp.exc, glu.exc, bmi.exc>>),
     keys |-> FeatureKeys,
     row |-> [gender |-> DictGet(patient_data, "gender"),
              age |-> age.v,
              hypertension |-> hyp.v,
              ever_married |-> DictGet(patient_data, "ever_married"),
              work_type |-> DictGet(patient_data, "work_type"),
              Residence_type |-> DictGet(patient_data, "residence_type"),
              avg_glucose_level |-> glu.v,
              bmi |-> bmi.v,
              smoking_status |-> DictGet(patient_data, "smoking_status")]]

\* prepare_features: [exc, keys (the columns in order), row]
prepare_features(patient_data) ==
    Payload(patient_data,
            _as_float(DictGet(patient_data, "age")),
            _as_int(DictGet(patient_data, "hypertension")),
            _as_float(DictGet(patient_data, "avg_glucose_level")),
            _as_float(DictGet(patient_data, "bmi")))

\* predict_proba with hidden state: the probability drifts with every request served
PredictProbaDrifting(art, row) ==
    IF art.base >= calls THEN art.base - calls ELSE 0

\* self.model.predict_proba(features)[0][1] of a fitted pipeline: a function of
\* the artifact and the row alone.  The stub lowers the artifact's base
\* probability by one unit for each numeric feature that is zero.
PredictProba(art, row) ==
    LET zeros == Cardinality({f \in {"age", "avg_glucose_level", "bmi"} : row[f] = PyFloat(0, 0)})
    IN  IF art.base >= zeros THEN art.base - zeros ELSE 0

\* prediction = 1 if probability > self.threshold else 0
ThresholdStrict(probability, threshold) == IF probability > threshold THEN 1 ELSE 0

\* prediction = 1 if probability >= self.threshold else 0
Threshold(probability, threshold) == IF probability >= threshold THEN 1 ELSE 0

\* predict falling back to the class label 0 when predict_proba is missing
PredictFeaturesFallback(self, features) ==
    IF features.exc # ""
    THEN [exc |-> [type |-> features.exc, msg |-> <<features.exc>>, cause |-> ""],
          prediction |-> 0, probability |-> 0]
    ELSE IF self.model = NoModel \/ self.model.art.kind # "pipeline"
    THEN [exc |-> NoExc, prediction |-> 0, probability |-> 0]
    ELSE [exc |-> NoExc,
          prediction |-> Threshold(PredictProba(self.model.art, features.row), self.threshold),
          probability |-> PredictProba(self.model.art, features.row)]

\* predict after load_model and prepare_features: [exc, prediction, probability]
PredictFeatures(self, features) ==
    IF features.exc # ""
    THEN [exc |-> [type |-> features.exc, msg |-> <<features.exc>>, cause |-> ""],
          prediction |-> 0, probability |-> 0]
    ELSE IF self.model = NoModel \/ self.model.art.kind # "pipeline"
    THEN [exc |-> CapabilityError, prediction |-> 0, probability |-> 0]
    ELSE [exc |-> NoExc,
          prediction |-> Threshold(PredictProba(self.model.art, features.row), self.threshold),
          probability |-> PredictProba(self.model.art, features.row)]

\* predict after load_model (lines 83-91)
PredictLoaded(self, patient_data) == PredictFeatures(self, prepare_features(patient_data))

(***************************************************************************)
(* routes/patient_routes.py: predict_stroke, one request per thread, with   *)
(* get_predictor, load_model and predict inlined at the points where the    *)
(* interpreter may switch threads.                                          *)
(***************************************************************************)
Threads == 1..NThreads

NoResult == [kind |-> "", exc |-> NoExc, prediction |-> 0, probability |-> 0,
             flash |-> <<>>]
IdleLocal == [patient |-> NoDoc, self |-> 0, obj |-> NoModel, result |-> NoResult]

FlashResult(exc, flash) ==
    [kind |-> "flash", exc |-> exc, prediction |-> 0, probability |-> 0, flash |-> flash]

\* the except clauses of predict_stroke
PredictFailed(exc) ==
    IF exc.type = "FileNotFoundError"
    THEN FlashResult(exc,
            <<"Model file not found. Please ensure the trained model is placed in the models/ directory.">>)
    ELSE FlashResult(exc, <<"Error making prediction: ">> \o exc.msg)

\* the render_template call of predict_stroke
PredictRendered(prediction, probability) ==
    [kind |-> "render", exc |-> NoExc, prediction |-> prediction,
     probability |-> probability,
     flash |-> <<IF prediction = 1 THEN "High Heart Attack Risk" ELSE "Low Heart Attack Risk">>]

Finish(t, result) ==
    /\ pc' = [pc EXCEPT ![t] = "done"]
    /\ local' = [local EXCEPT ![t].result = result]

\* predict_stroke up to the call of get_predictor (lines 254-263)
PredictStart(t, id) ==
    /\ pc[t] = "idle"
    /\ calls < MaxCalls
    /\ calls' = calls + 1
    /\ \E idv \in {validate_object_id(PyStr(id))}, patient \in {get_patient(patients, id)} :
           IF ~idv.valid THEN Finish(t, FlashResult(NoExc, idv.msg))
           ELSE IF patient = NoDoc THEN Finish(t, FlashResult(NoExc, <<"Patient not found.">>))
           ELSE /\ pc' = [pc EXCEPT ![t] = "get_predictor"]
                /\ local' = [local EXCEPT ![t].patient = patient]
    /\ dbops' = IF validate_object_id(PyStr(id)).valid THEN {DbOp("get_patient", id)} ELSE {}
    /\ UNCHANGED <<authVars, valVars, storeVars, req, resp, fs, predictor, instances, reads>>

\* get_predictor: if _predictor is None
GetPredictorCheck(t) ==
    /\ pc[t] = "get_predictor"
    /\ pc' = [pc EXCEPT ![t] = IF predictor = 0 THEN "create" ELSE "return"]
    /\ UNCHANGED <<authVars, valVars, storeVars, formVars, fs, predictor, instances, reads, calls, local>>

\* get_predictor: _predictor = StrokePredictor()
GetPredictorCreate(t) ==
    /\ pc[t] = "create"
    /\ instances' = Append(instances, StrokePredictor(MODEL_PATH, PREDICTION_THRESHOLD))
    /\ predictor' = Len(instances) + 1
    /\ pc' = [pc EXCEPT ![t] = "return"]
    /\ UNCHANGED <<authVars, valVars, storeVars, formVars, fs, reads, calls, local>>

\* get_predictor: return _predictor
GetPredictorReturn(t) ==
    /\ pc[t] = "return"
    /\ local' = [local EXCEPT ![t].self = predictor]
    /\ pc' = [pc EXCEPT ![t] = "load_model"]
    /\ UNCHANGED <<authVars, valVars, storeVars, formVars, fs, predictor, instances, reads, calls>>

\* load_model: the cache check and the existence check (lines 31-38)
LoadModelEnter(t) ==
    /\ pc[t] = "load_model"
    /\ \E chk \in {LoadModelCheck(instances[local[t].self], fs)} :
           CASE chk.next = "cached" ->
                  pc' = [pc EXCEPT ![t] = "predict"] /\ UNCHANGED local
             [] chk.next = "raise" -> Finish(t, PredictFailed(chk.exc))
             [] OTHER -> pc' = [pc EXCEPT ![t] = "joblib_load"] /\ UNCHANGED local
    /\ UNCHANGED <<authVars, valVars, storeVars, formVars, fs, predictor, instances, reads, calls>>

\* load_model: joblib.load(self.model_path), the read from storage (line 41, right side)
LoadModelRead(t) ==
    /\ pc[t] = "joblib_load"
    /\ reads' = reads + 1
    /\ \E ld \in {JoblibLoad(fs, instances[local[t].self].model_path, reads + 1)} :
           IF ld.exc # "" THEN Finish(t, PredictFailed(LoadError(ld.exc)))
           ELSE /\ pc' = [pc EXCEPT ![t] = "store_model"]
                /\ local' = [local EXCEPT ![t].obj = ld.obj]
    /\ UNCHANGED <<authVars, valVars, storeVars, formVars, fs, predictor, instances, calls>>

\* load_model: self.model = <the loaded object> (line 41, the assignment)
LoadModelStore(t) ==
    /\ pc[t] = "store_model"
    /\ instances' = [instances EXCEPT ![local[t].self].model = local[t].obj]
    /\ pc' = [pc EXCEPT ![t] = "predict"]
    /\ UNCHANGED <<authVars, valVars, storeVars, formVars, fs, predictor, reads, calls, local>>

\* predict after load_model (lines 83-91) and the rest of predict_stroke
Predict(t) ==
    /\ pc[t] = "predict"
    /\ \E r \in {PredictLoaded(instances[local[t].self], local[t].patient)} :
           IF r.exc # NoExc THEN Finish(t, PredictFailed(r.exc))
           ELSE Finish(t, PredictRendered(r.prediction, r.probability))
    /\ UNCHANGED <<authVars, valVars, storeVars, formVars, fs, predictor, instances, reads, calls>>

\* the response is sent; the thread serves the next request
Respond(t) ==
    /\ pc[t] = "done"
    /\ pc' = [pc EXCEPT ![t] = "idle"]
    /\ local' = [local EXCEPT ![t] = IdleLocal]
    /\ UNCHANGED <<authVars, valVars, storeVars, formVars, fs, predictor, instances, reads, calls>>

(***************************************************************************)
(* models/auth_model.py and the register route.  The users table has a     *)
(* UNIQUE username column and an AUTOINCREMENT id; each SQL statement is    *)
(* atomic.  A stored password is the hash of the plain text, which only     *)
(* check_password_hash relates back to it.                                  *)
(***************************************************************************)
MIN_USERNAME_LEN == 3
MIN_PASSWORD_LEN == 6
MAX_PASSWORD_LEN == 100

validate_username(username) ==
    IF ~Truthy(username) THEN Ret2(FALSE, <<"Username is ", "required">>)
    ELSE IF Len(username.s) < MIN_USERNAME_LEN
    THEN Ret2(FALSE, <<"Username must be at least 3 characters long">>)
    ELSE Ret2(TRUE, <<>>)

validate_password(password) ==
    IF ~Truthy(password) THEN Ret2(FALSE, <<"Password is ", "required">>)
    ELSE IF Len(password.s) < MIN_PASSWORD_LEN
    THEN Ret2(FALSE, <<"Password must be at least 6 characters long">>)
    ELSE IF Len(password.s) > MAX_PASSWORD_LEN THEN Ret2(FALSE, <<"Password is too long">>)
    ELSE Ret2(TRUE, <<>>)

generate_password_hash(password) == [method |-> "scrypt", of |-> password]
\* a check that accepts every password
check_password_hash_any(pwhash, password) == TRUE
check_password_hash(pwhash, password) == pwhash.of = password

Usernames(table) == {table[i].username : i \in 1..Len(table)}
\* User.username_exists: SELECT id FROM users WHERE username=?
username_exists(table, username) == username \in Usernames(table)

\* User.create on a table without the UNIQUE constraint: [ok, users, nextUid]
UserCreateNoUnique(table, uid, username, password) ==
    [ok |-> TRUE,
     users |-> Append(table, [id |-> uid, username |-> username,
                              password |-> generate_password_hash(password)]),
     nextUid |-> uid + 1]

\* User.create: the INSERT fails with IntegrityError when the username is
\* taken, and create returns False: [ok, users, nextUid]
UserCreate(table, uid, username, password) ==
    IF username \in Usernames(table)
    THEN [ok |-> FALSE, users |-> table, nextUid |-> uid]
    ELSE [ok |-> TRUE,
          users |-> Append(table, [id |-> uid, username |-> username,
                                   password |-> generate_password_hash(password)]),
          nextUid |-> uid + 1]

NoReg == [username |-> <<>>, password |-> <<>>, checked |-> FALSE, created |-> FALSE,
          flash |-> <<>>]
RegDone(r, reg) ==
    /\ apc' = [apc EXCEPT ![r] = "done"]
    /\ alocal' = [alocal EXCEPT ![r] = reg]

\* register, POST: from the form to the username_exists check
RegisterCheck(r, form) ==
    /\ apc[r] = "idle"
    /\ \E username \in {Strip(form.username)} :
       \E uv \in {validate_username(PyStr(username))},
          pv \in {validate_password(PyStr(form.password))} :
           IF ~uv.valid THEN RegDone(r, [NoReg EXCEPT !.flash = uv.msg])
           ELSE IF ~pv.valid THEN RegDone(r, [NoReg EXCEPT !.flash = pv.msg])
           ELSE IF username_exists(users, username)
           THEN RegDone(r, [NoReg EXCEPT !.username = username,
                                         !.flash = <<"Username already exists. Please choose another.">>])
           ELSE /\ apc' = [apc EXCEPT ![r] = "create"]
                /\ alocal' = [alocal EXCEPT ![r] =
                                 [NoReg EXCEPT !.username = username,
                                               !.password = form.password,
                                               !.checked = TRUE]]
    /\ UNCHANGED <<users, nextUid, made, ucall, valVars, storeVars, formVars, predVars>>

\* register: User.create(username, password) and the response
RegisterCreate(r) ==
    /\ apc[r] = "create"
    /\ \E c \in {UserCreate(users, nextUid, alocal[r].username, alocal[r].password)} :
          /\ users' = c.users
          /\ nextUid' = c.nextUid
          /\ made' = IF c.ok
                     THEN made \cup {[username |-> alocal[r].username,
                                      password |-> alocal[r].password]}
                     ELSE made
          /\ RegDone(r, [alocal[r] EXCEPT
                            !.created = c.ok,
                            !.flash = IF c.ok
                                      THEN <<"Account created successfully! Please login.">>
                                      ELSE <<"Error creating account. Please try again.">>])
    /\ UNCHANGED <<ucall, valVars, storeVars, formVars, predVars>>

\* the response is sent; the thread serves the next request
RegisterRespond(r) ==
    /\ apc[r] = "done"
    /\ apc' = [apc EXCEPT ![r] = "idle"]
    /\ alocal' = [alocal EXCEPT ![r] = NoReg]
    /\ UNCHANGED <<users, nextUid, made, ucall, valVars, storeVars, formVars, predVars>>

\* User.authenticate: SELECT id,username,password FROM users WHERE username=?,
\* fetchone, and check_password_hash on the row; NoUser is None
NoUser == [id |-> 0, username |-> <<>>, password |-> <<>>]
RowsNamed(table, username) == {i \in 1..Len(table) : table[i].username = username}
FetchOne(table, username) ==
    IF RowsNamed(table, username) = {} THEN NoUser
    ELSE table[CHOOSE i \in RowsNamed(table, username) :
                   \A j \in RowsNamed(table, username) : i <= j]
UserAuthenticate(table, username, password) ==
    IF /\ FetchOne(table, username) # NoUser
       /\ check_password_hash(FetchOne(table, username).password, password)
    THEN FetchOne(table, username)
    ELSE NoUser

NoUserCall == [op |-> "", username |-> <<>>, password |-> <<>>, ok |-> FALSE, user |-> NoUser]

\* a call of User.create(username, password)
CallUserCreate(username, password) ==
    /\ \E c \in {UserCreate(users, nextUid, username, password)} :
          /\ users' = c.users
          /\ nextUid' = c.nextUid
          /\ made' = IF c.ok
                     THEN made \cup {[username |-> username, password |-> password]}
                     ELSE made
          /\ ucall' = [NoUserCall EXCEPT !.op = "create", !.username = username,
                                         !.password = password, !.ok = c.ok]
    /\ UNCHANGED <<apc, alocal, valVars, storeVars, formVars, predVars>>

\* a call of User.authenticate(username, password)
CallUserAuthenticate(username, password) ==
    /\ ucall' = [NoUserCall EXCEPT !.op = "authenticate", !.username = username,
                                   !.password = password,
                                   !.user = UserAuthenticate(users, username, password),
                                   !.ok = UserAuthenticate(users, username, password) # NoUser]
    /\ UNCHANGED <<users, nextUid, made, apc, alocal, valVars, storeVars, formVars, predVars>>

\* a call of User.username_exists(username)
CallUsernameExists(username) ==
    /\ ucall' = [NoUserCall EXCEPT !.op = "username_exists", !.username = username,
                                   !.ok = username_exists(users, username)]
    /\ UNCHANGED <<users, nextUid, made, apc, alocal, valVars, storeVars, formVars, predVars>>

AuthIdle ==
    /\ users = <<>>
    /\ nextUid = 1
    /\ apc = [t \in Threads |-> "idle"]
    /\ alocal = [t \in Threads |-> NoReg]
    /\ made = {}
    /\ ucall = NoUserCall

(***************************************************************************)
(* Inputs.                                                                  *)
(***************************************************************************)
Alphabet == {"0", "1", "5", "-", ".", " ", "a", "n"}
Strings(n) == UNION {[1..k -> Alphabet] : k \in 0..n}
Repeat(c, n) == [i \in 1..n |-> c]

MALE_LOWER == <<"m", "a", "l", "e">>
YES_PADDED == <<"Y", "e", "s", " ">>
NAME_OCONNOR == <<"M", "a", "r", "y", "-", "J", "a", "n", "e", " ", "O", "'", "C", "o", "n", "n", "o", "r">>
NAME_DIGIT == <<"J", "o", "h", "n", "1", "2", "3">>
AGE_25 == <<"2", "5">>
AGE_200 == <<"2", "0", "0">>
INF_STR == <<"i", "n", "f">>
NINF_STR == <<"-", "i", "n", "f">>
TAB_STR == <<"\t", "5", "\n">>

EnumMembers ==
    {valid_genders[i] : i \in 1..Len(valid_genders)}
    \cup {valid_married[i] : i \in 1..Len(valid_married)}
    \cup {valid_work_types[i] : i \in 1..Len(valid_work_types)}
    \cup {valid_residence_types[i] : i \in 1..Len(valid_residence_types)}
    \cup {valid_statuses[i] : i \in 1..Len(valid_statuses)}

SpecialStrings ==
    EnumMembers
    \cup {MALE_LOWER, YES_PADDED, NAME_OCONNOR, NAME_DIGIT,
          AGE_25, AGE_200, INF_STR, NINF_STR, TAB_STR}
    \cup {Repeat("a", MAX_NAME_LEN), Repeat("a", MAX_NAME_LEN + 1)}
    \cup {Repeat("a", OID_HEX_LEN), Repeat("A", OID_HEX_LEN), Repeat("g", OID_HEX_LEN),
          Repeat("a", OID_HEX_LEN - 1), Repeat("a", OID_HEX_LEN + 1), Oid(1)}

IntInputs == {0 - 1, 0, 1, 2, MAX_BMI, MAX_BMI + 1, MAX_AGE, MAX_AGE + 1, MAX_GLUCOSE, MAX_GLUCOSE + 1}
FloatInputs ==
    {PyNaN, PyInf, PyNegInf, PyFloat(0, 0), PyFloat(5, 0 - 1), PyFloat(1, 0), PyFloat(15, 0 - 1),
     PyFloat(0 - 5, 0 - 1), PyFloat(MAX_BMI, 0), PyFloat(MAX_BMI * 10 + 1, 0 - 1),
     PyFloat(MAX_AGE, 0), PyFloat(MAX_AGE * 10 + 5, 0 - 1),
     PyFloat(MAX_GLUCOSE, 0), PyFloat(MAX_GLUCOSE * 10 + 1, 0 - 1)}

ValidatorInputs ==
    {PyNone}
    \cup {PyStr(s) : s \in Strings(MaxLen) \cup SpecialStrings}
    \cup {PyInt(n) : n \in IntInputs}
    \cup FloatInputs

(***************************************************************************)
(* Initial values of the variables a specification does not use.            *)
(***************************************************************************)
NoRes == [exc |-> "", valid |-> FALSE, msg |-> <<>>, val |-> PyNone, arity |-> 0]
NoFirst == [name |-> "", res |-> NoRes, again |-> FALSE]
ValIdle == input = PyNone /\ vname = "" /\ vres = NoRes /\ first = NoFirst
FormIdle == req = NoReq /\ resp = NoResp /\ dbops = {}
ThreadsIdle ==
    /\ reads = 0
    /\ calls = 0
    /\ pc = [t \in Threads |-> "idle"]
    /\ local = [t \in Threads |-> IdleLocal]
DefaultFiles == [p \in Paths |-> MissingArt]
PredIdle == fs = DefaultFiles /\ predictor = 0 /\ instances = <<>> /\ ThreadsIdle

(***************************************************************************)
(* VSpec: a validator is called on one input value.                         *)
(***************************************************************************)
Call(v, r) ==
    /\ vname' = v
    /\ vres' = r
    /\ UNCHANGED <<authVars, input, first, storeVars, formVars, predVars>>

CallName == Call("validate_patient_name", validate_patient_name(input))
CallAge == Call("validate_patient_age", validate_patient_age(input))
CallObjectId == Call("validate_object_id", validate_object_id(input))
CallGender == Call("validate_gender", validate_gender(input))
CallHypertension == Call("validate_hypertension", validate_hypertension(input))
CallEverMarried == Call("validate_ever_married", validate_ever_married(input))
CallWorkType == Call("validate_work_type", validate_work_type(input))
CallResidenceType == Call("validate_residence_type", validate_residence_type(input))
CallGlucose == Call("validate_avg_glucose_level", validate_avg_glucose_level(input))
CallBmi == Call("validate_bmi", validate_bmi(input))
CallSmokingStatus == Call("validate_smoking_status", validate_smoking_status(input))

VInit ==
    /\ input \in ValidatorInputs
    /\ vname = ""
    /\ vres = NoRes
    /\ first = NoFirst
    /\ patients = NoPatients /\ nextId = 0
    /\ FormIdle
    /\ AuthIdle
    /\ PredIdle

VNext ==
    \/ CallName
    \/ CallAge
    \/ CallObjectId
    \/ CallGender
    \/ CallHypertension
    \/ CallEverMarried
    \/ CallWorkType
    \/ CallResidenceType
    \/ CallGlucose
    \/ CallBmi
    \/ CallSmokingStatus

VSpec == VInit /\ [][VNext]_vars

NonEnumValidators ==
    {"validate_patient_name", "validate_patient_age", "validate_object_id",
     "validate_hypertension", "validate_avg_glucose_level", "validate_bmi"}
EnumValidators ==
    {"validate_gender", "validate_ever_married", "validate_work_type",
     "validate_residence_type", "validate_smoking_status"}
\* the input is absent (None) or the empty string
AbsentOrEmpty == input = PyNone \/ input = PyStr(<<>>)
Returned == vname # "" /\ vres.exc = ""

\* C10 as stated: every validator rejects an absent or empty input with a
\* message that contains "required".
C10_RequiredForEveryValidator ==
    (vname # "" /\ AbsentOrEmpty) =>
        (Returned /\ ~vres.valid /\ Contains(vres.msg, "required"))

\* C10: the name, age, object id, hypertension, glucose and bmi validators
\* reject an absent or empty input with a message that contains "required";
\* the five enum validators reject it too, with their message that lists the
\* domain, which does not contain "required".
C10_RequiredForNonEnum ==
    (vname # "" /\ AbsentOrEmpty) =>
        /\ Returned /\ ~vres.valid
        /\ vname \in NonEnumValidators => Contains(vres.msg, "required")
        /\ vname \in EnumValidators =>
              (~Contains(vres.msg, "required") /\ Contains(vres.msg, ", "))

C10_Witness ==
    /\ input = PyNone
    /\ vname = "validate_bmi"
    /\ ~vres.valid
    /\ Contains(vres.msg, "required")

(***************************************************************************)
(* FSpec: requests to the add, edit and delete routes, served one at a      *)
(* time.  A submitted form is BaseForm, BaseForm with one field replaced by *)
(* one of the field's alternatives (Absent: the field is not in the form),  *)
(* or one of a few forms with several fields replaced.                      *)
(***************************************************************************)
Absent == <<"(absent)">>
BaseForm ==
    [name |-> <<"L", "i">>,
     age |-> <<"5">>,
     gender |-> <<"M", "a", "l", "e">>,
     hypertension |-> <<"1">>,
     ever_married |-> <<"Y", "e", "s">>,
     work_type |-> <<"P", "r", "i", "v", "a", "t", "e">>,
     residence_type |-> <<"U", "r", "b", "a", "n">>,
     avg_glucose_level |-> <<"5", ".", "5">>,
     bmi |-> <<"1", ".", "5">>,
     smoking_status |-> <<"S", "m", "o", "k", "e", "s">>]
Alternatives ==
    [name |-> {<<>>, <<"L">>, <<"L", "1">>, <<" ", "L", "i", " ">>},
     age |-> {<<>>, <<"a">>, <<"1", "5", "1">>, <<"1", "5", "0">>},
     gender |-> {Absent, <<"m", "a", "l", "e">>},
     hypertension |-> {<<>>, <<"5">>, <<" ", "0">>},
     ever_married |-> {Absent, <<"y", "e", "s">>},
     work_type |-> {<<>>, <<"p", "r", "i", "v", "a", "t", "e">>},
     residence_type |-> {Absent, <<"R", "u", "r", "a", "l", " ">>},
     avg_glucose_level |-> {<<>>, <<"a">>, <<"5", "0", "1">>},
     bmi |-> {<<>>, <<"-", "1">>, <<"n", "a", "n">>},
     smoking_status |-> {Absent, <<"s", "m", "o", "k", "e", "s">>}]

\* BaseForm with the fields of DOMAIN c replaced as c says
MakeForm(c) ==
    [f \in {g \in FieldSet : ~(g \in DOMAIN c /\ c[g] = Absent)} |->
        IF f \in DOMAIN c THEN c[f] ELSE BaseForm[f]]

\* one field f replaced by a
OneChanged(f, a) == MakeForm([g \in {f} |-> a])

FormInputs ==
    {BaseForm, NoForm}
    \cup UNION {{OneChanged(f, a) : a \in Alternatives[f]} : f \in FieldSet}
    \cup {MakeForm([name |-> <<"L", "1">>, bmi |-> <<"-", "1">>]),
          MakeForm([age |-> <<"1", "5", "0">>, bmi |-> <<"n", "a", "n">>]),
          MakeForm([gender |-> Absent, smoking_status |-> <<>>, hypertension |-> <<"5">>])}

IdInputs ==
    {Oid(i) : i \in 1..MaxPatients} \cup {<<>>, <<"1">>, Repeat("g", OID_HEX_LEN)}

Request(route, method, id, form) ==
    [route |-> route, method |-> method, id |-> id, form |-> form]
Requests ==
    {Request("add", "GET", <<>>, NoForm)}
    \cup {Request("add", "POST", <<>>, f) : f \in FormInputs}
    \cup {Request("edit", "GET", id, NoForm) : id \in IdInputs}
    \cup {Request("edit", "POST", id, f) : id \in {Oid(i) : i \in 1..MaxPatients}, f \in FormInputs}
    \cup {Request("edit", "POST", id, BaseForm) : id \in IdInputs}
    \cup {Request("delete", "GET", id, NoForm) : id \in IdInputs}

FInit ==
    /\ ValIdle
    /\ patients = NoPatients /\ nextId = 0
    /\ FormIdle
    /\ AuthIdle
    /\ PredIdle

FNext ==
    \/ \E r \in Requests : Submit(r)
    \/ \E dbok \in BOOLEAN : add_patient(dbok)
    \/ \E dbok \in BOOLEAN : edit_patient(dbok)
    \/ \E dbok \in BOOLEAN : delete(dbok)

FSpec == FInit /\ [][FNext]_vars

\* the fields a submission hands to the validators all pass
AllValid(form) == \A f \in FieldSet : ValidateField(f, FieldValue(form, f)).valid

\* C2: whenever add_patient or edit_patient changes the store, all ten
\* validators accepted the submission being served, and some document then
\* holds the ten coerced values of that submission; so a submission with a
\* rejected field leaves the store as it was.
C2_WriteOnlyIfAllValid ==
    [][(patients' # patients /\ req.route \in {"add", "edit"}) =>
          /\ req.method = "POST"
          /\ AllValid(req.form)
          /\ \E o \in DOMAIN patients' :
                \A f \in FieldSet :
                   patients'[o][f] = PatientData(req.form, ValidateAll(req.form))[f]]_vars

C2_Witness ==
    /\ resp = Redirect(<<"Patient updated successfully!">>, "success")
    /\ Cardinality(DOMAIN patients) = MaxPatients

(***************************************************************************)
(* Spec: predict_stroke requests served by concurrent threads over a store  *)
(* that holds one complete document.                                        *)
(***************************************************************************)
FullDoc ==
    [name |-> PyStr(<<"L", "i">>),
     age |-> PyInt(5),
     gender |-> PyStr(valid_genders[1]),
     hypertension |-> PyInt(1),
     ever_married |-> PyStr(valid_married[2]),
     work_type |-> PyStr(valid_work_types[4]),
     residence_type |-> PyStr(valid_residence_types[2]),
     avg_glucose_level |-> PyFloat(55, 0 - 1),
     bmi |-> PyFloat(15, 0 - 1),
     smoking_status |-> PyStr(valid_statuses[3])]
Without(doc, S) == [f \in DOMAIN doc \ S |-> doc[f]]

BrokenArtifacts == {MissingArt, Art("corrupt", 0), Art("noproba", 0), Art("null", 0)}
Artifacts == BrokenArtifacts \cup {Art("pipeline", PREDICTION_THRESHOLD)}

LegacyStore == [o \in {Oid(1)} |-> FullDoc]
\* a stored patient and an id the store does not hold
PredictIds == {Oid(1), Oid(2)}

Init ==
    /\ ValIdle
    /\ FormIdle
    /\ AuthIdle
    /\ patients = LegacyStore /\ nextId = 1
    /\ fs \in {[DefaultFiles EXCEPT ![MODEL_PATH] = a] : a \in Artifacts}
    /\ predictor = 0
    /\ instances = <<>>
    /\ ThreadsIdle

Step(t) ==
    \/ GetPredictorCheck(t)
    \/ GetPredictorCreate(t)
    \/ GetPredictorReturn(t)
    \/ LoadModelEnter(t)
    \/ LoadModelRead(t)
    \/ LoadModelStore(t)
    \/ Predict(t)
    \/ Respond(t)

Next ==
    \E t \in Threads :
        \/ \E id \in PredictIds : PredictStart(t, id)
        \/ Step(t)

Spec == Init /\ [][Next]_vars

(***************************************************************************)
(* SeqSpec: one thread serves predict_stroke requests one after the other. *)
(* The process-wide predictor is either not yet created, or a predictor    *)
(* constructed with a path and a threshold of its own.                     *)
(***************************************************************************)
FeatureFields == FieldSet \ {"name"}
PartialDocs ==
    {Without(FullDoc, S) : S \in {X \in SUBSET FeatureFields : Cardinality(X) <= MaxMissing}}
        \cup {Without(FullDoc, FeatureFields)}
BaseProbs == {1, PREDICTION_THRESHOLD, ProbScale}
SeqArtifacts == BrokenArtifacts \cup {Art("pipeline", b) : b \in BaseProbs}
StubThresholds == {0, PREDICTION_THRESHOLD - 1, ProbScale}
SeqThread == 1

SeqInit ==
    /\ ValIdle
    /\ FormIdle
    /\ AuthIdle
    /\ patients \in {[o \in {Oid(1)} |-> d] : d \in PartialDocs}
    /\ nextId = 1
    /\ \E a \in SeqArtifacts :
          \/ /\ fs = [DefaultFiles EXCEPT ![MODEL_PATH] = a]
             /\ predictor = 0
             /\ instances = <<>>
          \/ \E th \in StubThresholds :
                /\ fs = [DefaultFiles EXCEPT ![OTHER_PATH] = a]
                /\ predictor = 1
                /\ instances = <<StrokePredictor(OTHER_PATH, th)>>
    /\ ThreadsIdle

SeqNext ==
    \/ \E id \in PredictIds : PredictStart(SeqThread, id)
    \/ Step(SeqThread)

SeqSpec == SeqInit /\ [][SeqNext]_vars

\* a predict_stroke request that got as far as predictor.predict and answered
Served(t) == pc[t] = "done" /\ local[t].self # 0
ServedBy(t) == instances[local[t].self]
ServedArtifact(t) == fs[ServedBy(t).model_path]

(***************************************************************************)
(* Properties of the predictor.                                            *)
(***************************************************************************)

\* C1 as stated: with the artifact in place, concurrent predict calls against a
\* predictor that has not loaded it read the artifact from storage exactly
\* once, and every one of the calls returns a verdict.
C1_ConcurrentLoadsReadOnce ==
    fs[MODEL_PATH].kind = "pipeline" =>
        /\ reads <= 1
        /\ \A t \in Threads : Served(t) =>
              (reads = 1 /\ local[t].result.kind = "render")

\* C3: a verdict carries the probability of the stroke class as the pipeline
\* gave it, and the prediction is 1 exactly when that probability is at least
\* the predictor's threshold, else 0; at threshold 0.75 a probability of 0.75
\* gives 1 and a probability of 0.7499999 gives 0.
C3_ThresholdInclusive ==
    \A t \in Threads :
        (Served(t) /\ local[t].result.kind = "render") =>
            /\ local[t].result.probability =
                   PredictProba(ServedBy(t).model.art, prepare_features(local[t].patient).row)
            /\ local[t].result.prediction \in {0, 1}
            /\ local[t].result.prediction = 1 <=>
                   local[t].result.probability >= ServedBy(t).threshold
            /\ (ServedBy(t).threshold = 7500000 /\ local[t].result.probability = 7500000)
                   => local[t].result.prediction = 1
            /\ (ServedBy(t).threshold = 7500000 /\ local[t].result.probability = 7499999)
                   => local[t].result.prediction = 0
C3_Witness ==
    /\ Served(SeqThread)
    /\ local[SeqThread].result.kind = "render"
    /\ ServedBy(SeqThread).threshold = PREDICTION_THRESHOLD
    /\ local[SeqThread].result.probability = PREDICTION_THRESHOLD
    /\ local[SeqThread].result.prediction = 1

\* C4: in sequential use, once a predictor holds the loaded model the artifact
\* has been read from storage once, and no later call reads it again.
C4_ReadOnceSequential ==
    \A i \in 1..Len(instances) : instances[i].model # NoModel => reads = 1
C4_Witness ==
    /\ calls = MaxCalls
    /\ Served(SeqThread)
    /\ local[SeqThread].result.kind = "render"
    /\ instances[predictor].model # NoModel
    /\ reads = 1

\* C5: when no artifact exists at the predictor's path, a predict call fails
\* with the not-found error that names the path, and the predictor stays
\* without a model (nothing is read), so a later call fails the same way.
C5_MissingArtifactNotFound ==
    /\ \A i \in 1..Len(instances) :
          fs[instances[i].model_path].kind = "missing" => instances[i].model = NoModel
    /\ fs[MODEL_PATH].kind = "missing" => reads = 0
    /\ \A t \in Threads :
          (Served(t) /\ ServedArtifact(t).kind = "missing") =>
              /\ local[t].result.kind = "flash"
              /\ local[t].result.exc = NotFoundError(ServedBy(t).model_path)
              /\ Contains(local[t].result.exc.msg, ServedBy(t).model_path)
C5_Witness ==
    /\ fs[MODEL_PATH].kind = "missing"
    /\ calls = MaxCalls
    /\ \A t \in Threads :
          /\ Served(t)
          /\ local[t].result.exc = NotFoundError(MODEL_PATH)
    /\ instances[predictor].model = NoModel

\* C6 as stated: once a predictor holds a loaded model, that object is never
\* replaced by a later load.
C6_ModelNeverReplaced ==
    [][\A i \in 1..Len(instances) :
          instances[i].model # NoModel => instances'[i].model = instances[i].model]_vars

\* C7: with the artifact loaded, a stored document that lacks feature fields
\* still gets a verdict: an absent age, avg_glucose_level or bmi reaches the
\* pipeline as 0.0 and an absent hypertension as 0, an absent categorical
\* field as None, and the verdict is the pipeline's for that row.
C7_AbsentFieldsDefaulted ==
    \A t \in Threads :
        (Served(t) /\ ServedArtifact(t).kind = "pipeline") =>
            /\ local[t].result.kind = "render"
            /\ prepare_features(local[t].patient).exc = ""
            /\ \A f \in {"age", "avg_glucose_level", "bmi"} :
                  f \notin DOMAIN local[t].patient =>
                      prepare_features(local[t].patient).row[f] = PyFloat(0, 0)
            /\ "hypertension" \notin DOMAIN local[t].patient =>
                  prepare_features(local[t].patient).row.hypertension = PyInt(0)
            /\ \A f \in {"gender", "ever_married", "work_type", "smoking_status"} :
                  f \notin DOMAIN local[t].patient =>
                      prepare_features(local[t].patient).row[f] = PyNone
            /\ local[t].result.probability =
                   PredictProba(ServedArtifact(t), prepare_features(local[t].patient).row)
C7_Witness ==
    /\ Served(SeqThread)
    /\ ServedArtifact(SeqThread).kind = "pipeline"
    /\ DOMAIN local[SeqThread].patient \cap FeatureFields = {}
    /\ local[SeqThread].result.kind = "render"
    /\ local[SeqThread].result.probability = PREDICTION_THRESHOLD - 3

\* C8 as stated: an artifact that exists but cannot be deserialized fails the
\* call with an error that wraps the cause and is of a different kind than the
\* error for a missing artifact, so the two are told apart.
C8_CorruptDistinctFromMissing ==
    \A t \in Threads :
        (Served(t) /\ ServedArtifact(t).kind = "corrupt") =>
            /\ local[t].result.kind = "flash"
            /\ local[t].result.exc.cause # ""
            /\ local[t].result.exc.type # NotFoundError(ServedBy(t).model_path).type
            /\ local[t].result.flash # PredictFailed(NotFoundError(ServedBy(t).model_path)).flash

\* C9: when the loaded artifact cannot produce class probabilities, the call
\* fails with the capability error; no verdict and no default probability is
\* returned.
C9_NoProbabilityNoVerdict ==
    \A t \in Threads :
        (Served(t) /\ ServedArtifact(t).kind \in {"noproba", "null"}) =>
            /\ local[t].result.kind = "flash"
            /\ local[t].result.exc = CapabilityError
            /\ Contains(local[t].result.flash, "Loaded model does not expose predict_proba")
C9_Witness ==
    /\ fs[MODEL_PATH].kind = "noproba"
    /\ \A t \in Threads : Served(t) /\ local[t].result.exc = CapabilityError

(***************************************************************************)
(* Properties of the validators.                                           *)
(***************************************************************************)
\* the fixed domain of an enum validator
DomainOf(v) ==
    CASE v = "validate_gender" -> valid_genders
      [] v = "validate_ever_married" -> valid_married
      [] v = "validate_work_type" -> valid_work_types
      [] v = "validate_residence_type" -> valid_residence_types
      [] v = "validate_smoking_status" -> valid_statuses
IsMember(x, dom) == x.t = "str" /\ x.s \in {dom[i] : i \in 1..Len(dom)}

\* C11: an enum validator accepts its input, with an empty message, exactly
\* when the input equals a member of the field's domain; every other input is
\* rejected with a message that lists all the members joined by ", ".
C11_EnumExactMembership ==
    vname \in EnumValidators =>
        /\ Returned
        /\ vres.valid <=> IsMember(input, DomainOf(vname))
        /\ vres.valid => vres.msg = <<>>
        /\ ~vres.valid =>
              /\ Len(vres.msg) > 1
              /\ Tail(vres.msg) = Join(DomainOf(vname), ", ")
              /\ Cardinality({i \in 1..Len(vres.msg) : vres.msg[i] = ", "})
                     = Len(DomainOf(vname)) - 1
C11_Witness ==
    /\ vname = "validate_gender"
    /\ input = PyStr(MALE_LOWER)
    /\ ~vres.valid
    /\ Contains(vres.msg, ", ")

\* the input is None, a str or an int: the values the age and hypertension
\* validators document as their inputs
TextOrInt == input.t \in {"none", "str", "int"}
\* the integer a str or an int denotes
Denoted(x) == IF x.t = "int" THEN [ok |-> TRUE, n |-> x.n] ELSE ParseInt(x.s)

\* C12 as stated: validate_patient_age returns (true, "", n) exactly when the
\* input denotes an integer n with 0 <= n <= 150, and otherwise (false,
\* message, None) with "required" for empty input, "number" for unparsable
\* input, "negative" for n < 0 and "150" for n > 150.
C12_AgeContract ==
    (vname = "validate_patient_age" /\ TextOrInt) =>
        /\ Returned
        /\ vres.arity = 3
        /\ IF AbsentOrEmpty
           THEN ~vres.valid /\ Contains(vres.msg, "required") /\ vres.val = PyNone
           ELSE IF ~Denoted(input).ok
           THEN ~vres.valid /\ Contains(vres.msg, "number") /\ vres.val = PyNone
           ELSE IF Denoted(input).n < 0
           THEN ~vres.valid /\ Contains(vres.msg, "negative") /\ vres.val = PyNone
           ELSE IF Denoted(input).n > 150
           THEN ~vres.valid /\ Contains(vres.msg, "150") /\ vres.val = PyNone
           ELSE vres.valid /\ vres.msg = <<>> /\ vres.val = PyInt(Denoted(input).n)

FloatValidators == {"validate_bmi", "validate_avg_glucose_level"}
MaxOf(v) == IF v = "validate_bmi" THEN MAX_BMI ELSE MAX_GLUCOSE
\* the input denotes a number (nan, "nan" and unparsable text do not)
IsNumber(x) == ToFloat(x).exc = "" /\ ToFloat(x).v.k # "nan"
FloatEq(x, b) == x.k = "fin" /\ x.n = b * Pow10(0 - x.e)

\* C13 as stated: validate_bmi and validate_avg_glucose_level accept the
\* values 0 and the field's maximum, reject every value above the maximum and
\* every negative value, and reject every input that is not a number.
C13_FloatBounds ==
    vname \in FloatValidators =>
        /\ Returned
        /\ ~IsNumber(input) => ~vres.valid
        /\ IsNumber(input) =>
              /\ (FloatEq(ToFloat(input).v, 0) \/ FloatEq(ToFloat(input).v, MaxOf(vname)))
                     => vres.valid
              /\ FloatGt(ToFloat(input).v, MaxOf(vname)) => ~vres.valid
              /\ FloatLtZero(ToFloat(input).v) => ~vres.valid

\* the input is the integer 0 or 1, its text form, or the float equal to it
IsZeroOrOne(x) ==
    CASE x.t \in {"str", "int"} -> Denoted(x).ok /\ Denoted(x).n \in {0, 1}
      [] x.t = "float" -> FloatEq(x, 0) \/ FloatEq(x, 1)
      [] OTHER -> FALSE

\* C14 as stated: validate_hypertension returns valid with the coerced value v
\* only when the input is the integer 0 or 1 (or its text form), with v that
\* integer; every other non-empty input, numeric or not, is rejected with the
\* message "Hypertension must be 0 (No) or 1 (Yes)" and the value None.
C14_HypertensionContract ==
    (vname = "validate_hypertension" /\ ~AbsentOrEmpty) =>
        /\ Returned
        /\ IF IsZeroOrOne(input)
           THEN vres.valid /\ vres.msg = <<>> /\ vres.val = PyInt(ToInt(input).n)
           ELSE /\ ~vres.valid
                /\ vres.msg = <<"Hypertension must be 0 (No) or 1 (Yes)">>
                /\ vres.val = PyNone

TextOrNone == input.t \in {"none", "str"}
AllowedOnly(s) == \A i \in 1..Len(s) : s[i] \in Letter \cup Whitespace \cup {"-", "'"}
InNameLength(s) == Len(s) >= 2 /\ Len(s) <= 100
AllWhitespace(s) == \A i \in 1..Len(s) : s[i] \in Whitespace

\* C15 as stated: validate_patient_name accepts a name exactly when it has
\* between 2 and 100 characters and consists only of letters, whitespace,
\* hyphens and apostrophes; an empty name is rejected with "required", a
\* 1-character name with "2 characters", a name with any other character with
\* "letters".
C15_NameCharactersOnly ==
    (vname = "validate_patient_name" /\ TextOrNone) =>
        /\ Returned
        /\ vres.valid <=> (InNameLength(input.s) /\ AllowedOnly(input.s))
        /\ AbsentOrEmpty => Contains(vres.msg, "required")
        /\ Len(input.s) = 1 => Contains(vres.msg, "2 characters")
        /\ (InNameLength(input.s) /\ ~AllowedOnly(input.s)) => Contains(vres.msg, "letters")

\* C15: validate_patient_name accepts a name exactly when it has between 2 and
\* 100 characters, consists only of letters, whitespace, hyphens and
\* apostrophes, and is not whitespace alone; an empty name is rejected with
\* "required", a 1-character name with "2 characters", and a name of 2 to 100
\* characters that holds another character or only whitespace with "letters".
C15_NameTrimmedNonEmpty ==
    (vname = "validate_patient_name" /\ TextOrNone) =>
        /\ Returned
        /\ vres.valid <=>
              (InNameLength(input.s) /\ AllowedOnly(input.s) /\ ~AllWhitespace(input.s))
        /\ vres.valid => vres.msg = <<>>
        /\ AbsentOrEmpty => Contains(vres.msg, "required")
        /\ Len(input.s) = 1 => Contains(vres.msg, "2 characters")
        /\ (InNameLength(input.s) /\ (~AllowedOnly(input.s) \/ AllWhitespace(input.s)))
              => Contains(vres.msg, "letters")
C15_Witness ==
    /\ vname = "validate_patient_name"
    /\ input = PyStr(<<" ", " ">>)
    /\ ~vres.valid
    /\ Contains(vres.msg, "letters")

(***************************************************************************)
(* IdSpec: the identifier validator and the routes that take an id (edit,  *)
(* delete, predict), served one request at a time over a store that holds  *)
(* one patient.  A behaviour follows one identifier: the validator is      *)
(* called on it and the routes are requested with it.                      *)
(***************************************************************************)
INVALID_ID == <<"i", "n", "v", "a", "l", "i", "d">>
IdStrings ==
    IdInputs \cup {INVALID_ID, Repeat("A", OID_HEX_LEN), Repeat("a", OID_HEX_LEN - 1),
                   Repeat("a", OID_HEX_LEN + 1), <<" ">>}
IdRequests(id) ==
    {Request("edit", "GET", id, NoForm), Request("edit", "POST", id, BaseForm),
     Request("delete", "GET", id, NoForm)}

IdInit ==
    /\ input \in {PyNone} \cup {PyStr(s) : s \in IdStrings}
    /\ vname = ""
    /\ vres = NoRes
    /\ first = NoFirst
    /\ patients = LegacyStore /\ nextId = 1
    /\ FormIdle
    /\ AuthIdle
    /\ fs = [DefaultFiles EXCEPT ![MODEL_PATH] = Art("pipeline", PREDICTION_THRESHOLD)]
    /\ predictor = 0
    /\ instances = <<>>
    /\ ThreadsIdle

IdNext ==
    \/ CallObjectId
    \/ \E r \in IdRequests(input.s) : Submit(r)
    \/ \E dbok \in BOOLEAN : edit_patient(dbok)
    \/ \E dbok \in BOOLEAN : delete(dbok)
    \/ PredictStart(SeqThread, input.s)
    \/ Step(SeqThread)

IdSpec == IdInit /\ [][IdNext]_vars

\* an identifier of 24 hexadecimal characters
WellFormedId(s) ==
    /\ Len(s) = 24
    /\ \A i \in 1..Len(s) : s[i] \in Digit \cup {"a", "b", "c", "d", "e", "f"}
                                   \cup {"A", "B", "C", "D", "E", "F"}

C17_ValidatorsNeverRaise ==
    vname # "" => (vres.exc = "" /\ vres.arity \in {2, 3})

(***************************************************************************)
(* PSpec: validators are called one after the other on the same input, in  *)
(* any order and any number of times; first keeps the first call, and      *)
(* whether its validator was called again after another one.               *)
(***************************************************************************)
ValidatorNames == NonEnumValidators \cup EnumValidators
ResultOf(v, x) ==
    CASE v = "validate_patient_name" -> validate_patient_name(x)
      [] v = "validate_patient_age" -> validate_patient_age(x)
      [] v = "validate_object_id" -> validate_object_id(x)
      [] v = "validate_gender" -> validate_gender(x)
      [] v = "validate_hypertension" -> validate_hypertension(x)
      [] v = "validate_ever_married" -> validate_ever_married(x)
      [] v = "validate_work_type" -> validate_work_type(x)
      [] v = "validate_residence_type" -> validate_residence_type(x)
      [] v = "validate_avg_glucose_level" -> validate_avg_glucose_level(x)
      [] v = "validate_bmi" -> validate_bmi(x)
      [] v = "validate_smoking_status" -> validate_smoking_status(x)

PureInputs ==
    {PyNone}
    \cup {PyStr(s) : s \in Strings(MaxLen - 1) \cup SpecialStrings}
    \cup {PyInt(n) : n \in IntInputs}
    \cup FloatInputs

PCall(v) ==
    /\ \E r \in {ResultOf(v, input)} :
          /\ vname' = v
          /\ vres' = r
          /\ first' = IF first.name = "" THEN [name |-> v, res |-> r, again |-> FALSE]
                      ELSE IF first.name = v /\ vname # v THEN [first EXCEPT !.again = TRUE]
                      ELSE first
    /\ UNCHANGED <<authVars, input, storeVars, formVars, predVars>>

PInit ==
    /\ input \in PureInputs
    /\ vname = ""
    /\ vres = NoRes
    /\ first = NoFirst
    /\ patients = NoPatients /\ nextId = 0
    /\ FormIdle
    /\ AuthIdle
    /\ PredIdle

PNext == \E v \in ValidatorNames : PCall(v)

PSpec == PInit /\ [][PNext]_vars

TwoThreads == {1, 2}
TwoProfiles ==
    [o \in {Oid(1), Oid(2)} |-> IF o = Oid(1) THEN FullDoc ELSE Without(FullDoc, {"bmi"})]

DInit ==
    /\ ValIdle
    /\ FormIdle
    /\ AuthIdle
    /\ patients = TwoProfiles /\ nextId = 2
    /\ fs \in {[DefaultFiles EXCEPT ![MODEL_PATH] = Art("pipeline", b)] :
                  b \in {PREDICTION_THRESHOLD, ProbScale}}
    /\ predictor = 0
    /\ instances = <<>>
    /\ ThreadsIdle

DNext ==
    \E t \in TwoThreads :
        \/ \E id \in PredictIds : PredictStart(t, id)
        \/ Step(t)

DSpec == DInit /\ [][DNext]_vars

USER_ANN == <<"a", "n", "n">>
USER_ANN_PADDED == <<" ", "a", "n", "n">>
USER_BO == <<"b", "o">>
PASS_SECRET == <<"s", "e", "c", "r", "e", "t">>
PASS_HUNTER == <<"h", "u", "n", "t", "e", "r", "2">>
PASS_SHORT == <<"a", "b", "c">>
RegisterForms ==
    {[username |-> u, password |-> p] :
        u \in {USER_ANN, USER_ANN_PADDED, USER_BO, <<"b", "o", "b">>},
        p \in {PASS_SECRET, PASS_HUNTER, PASS_SHORT}}

AInit ==
    /\ ValIdle
    /\ patients = NoPatients /\ nextId = 0
    /\ FormIdle
    /\ AuthIdle
    /\ PredIdle

ANext ==
    \E r \in Threads :
        \/ \E form \in RegisterForms : RegisterCheck(r, form)
        \/ RegisterCreate(r)
        \/ RegisterRespond(r)

ASpec == AInit /\ [][ANext]_vars

UniqueUsernames ==
    \A i \in 1..Len(users) : \A j \in 1..Len(users) :
        users[i].username = users[j].username => i = j

\* C20: the users table never holds two rows with one username; a create for
\* a username that is taken returns False and leaves the table (the stored
\* password included) as it was, a create for a free username returns True
\* and adds the row; so of the registrations that passed the username_exists
\* check for one new username, one create returns True and the others False.
C20_OneUserPerUsername ==
    /\ [](UniqueUsernames
          /\ \A r \in Threads :
                (apc[r] = "done" /\ alocal[r].checked) =>
                    /\ alocal[r].username \in Usernames(users)
                    /\ \A s \in Threads :
                          (/\ s # r /\ apc[s] = "done" /\ alocal[s].checked
                           /\ alocal[s].username = alocal[r].username)
                             => ~(alocal[r].created /\ alocal[s].created))
    /\ [][\A r \in Threads :
             (apc[r] = "create" /\ apc'[r] = "done") =>
                 IF alocal[r].username \in Usernames(users)
                 THEN ~alocal'[r].created /\ users' = users
                 ELSE /\ alocal'[r].created
                      /\ Len(users') = Len(users) + 1
                      /\ users'[Len(users')].username = alocal[r].username
                      /\ check_password_hash(users'[Len(users')].password, alocal[r].password)
                      /\ SubSeq(users', 1, Len(users)) = users]_vars
C20_Witness ==
    /\ \A r \in Threads :
          /\ apc[r] = "done"
          /\ alocal[r].checked
          /\ alocal[r].username = USER_ANN
    /\ Cardinality({r \in Threads : alocal[r].created}) = 1
    /\ Len(users) = 1
    /\ \E r \in Threads : ~alocal[r].created /\ alocal[r].password = PASS_HUNTER
    /\ users[1].password = generate_password_hash(PASS_SECRET)

(***************************************************************************)
(* USpec: calls of the User model, in any order, over usernames that       *)
(* differ in case and padding and over passwords that include the empty    *)
(* one.                                                                    *)
(***************************************************************************)
USER_ANN_UPPER == <<"A", "n", "n">>
UserNames == {USER_ANN, USER_ANN_PADDED, USER_ANN_UPPER}
UserPasswords == {PASS_SECRET, PASS_HUNTER, <<>>}

UInit ==
    /\ ValIdle
    /\ patients = NoPatients /\ nextId = 0
    /\ FormIdle
    /\ AuthIdle
    /\ PredIdle

UNext ==
    \E username \in UserNames :
        \/ \E password \in UserPasswords : CallUserCreate(username, password)
        \/ \E password \in UserPasswords : CallUserAuthenticate(username, password)
        \/ CallUsernameExists(username)

USpec == UInit /\ [][UNext]_vars

MadeNames == {m.username : m \in made}

\* C21: after any sequence of User.create calls, User.authenticate(u, p)
\* returns a user exactly when create returned True for that username with
\* that password, and the user carries username u and an id that is not
\* None; every other authenticate returns None; username_exists(u) is True
\* exactly for the usernames a create returned True for.
C21_AuthenticateMatchesCreate ==
    /\ ucall.op = "authenticate" =>
          /\ ucall.ok <=> [username |-> ucall.username, password |-> ucall.password] \in made
          /\ ucall.ok => ucall.user.username = ucall.username /\ ucall.user.id # NoUser.id
          /\ ~ucall.ok => ucall.user = NoUser
    /\ ucall.op = "username_exists" => (ucall.ok <=> ucall.username \in MadeNames)
C21_Witness ==
    /\ Len(users) = 2
    /\ [username |-> USER_ANN, password |-> PASS_SECRET] \in made
    /\ USER_ANN_UPPER \in MadeNames
    /\ ucall.op = "authenticate"
    /\ ucall.username = USER_ANN
    /\ ucall.password = PASS_SECRET
    /\ ucall.ok
    /\ ucall.user.id = 1

(***************************************************************************)
(* GSpec: predict_stroke over a stored document one feature field of which *)
(* holds a value the forms did not write (a document of another writer of  *)
(* the collection), with a loadable artifact.                              *)
(***************************************************************************)
ForeignValues ==
    {PyNone, PyInt(0), PyInt(2), PyNaN, PyInf, PyNegInf, PyFloat(15, 0 - 1)}
    \cup {PyStr(s) : s \in {<<>>, <<"a">>, <<"5">>, <<"1", ".", "5">>, INF_STR, <<"n", "a", "n">>,
                            MALE_LOWER}}
ForeignDocs == {[FullDoc EXCEPT ![f] = v] : f \in FeatureFields, v \in ForeignValues}

GInit ==
    /\ ValIdle
    /\ FormIdle
    /\ AuthIdle
    /\ patients \in {[o \in {Oid(1)} |-> d] : d \in ForeignDocs}
    /\ nextId = 1
    /\ fs = [DefaultFiles EXCEPT ![MODEL_PATH] = Art("pipeline", PREDICTION_THRESHOLD)]
    /\ predictor = 0
    /\ instances = <<>>
    /\ ThreadsIdle

GNext ==
    \/ \E id \in PredictIds : PredictStart(SeqThread, id)
    \/ Step(SeqThread)

GSpec == GInit /\ [][GNext]_vars

\* float(value) / int(value) fails for the value stored under the field
NoFloat(doc, f) == ToFloat(DictGet(doc, f)).exc # ""
NoInt(doc, f) == ToInt(DictGet(doc, f)).exc # ""

\* C22 as stated: prepare_features always produces one row with exactly the
\* nine keys gender, age, hypertension, ever_married, work_type,
\* Residence_type, avg_glucose_level, bmi, smoking_status in that order;
\* Residence_type carries the document's residence_type, the categorical
\* values pass through unchanged, and a numeric field that cannot be coerced
\* becomes 0.0 (age, avg_glucose_level, bmi) or 0 (hypertension).
C22_FeatureRow ==
    Served(SeqThread) =>
        /\ prepare_features(local[SeqThread].patient).exc = ""
        /\ local[SeqThread].result.kind = "render"
        /\ prepare_features(local[SeqThread].patient).keys =
              <<"gender", "age", "hypertension", "ever_married", "work_type",
                "Residence_type", "avg_glucose_level", "bmi", "smoking_status">>
        /\ prepare_features(local[SeqThread].patient).row.Residence_type =
              local[SeqThread].patient.residence_type
        /\ \A f \in {"gender", "ever_married", "work_type", "smoking_status"} :
              prepare_features(local[SeqThread].patient).row[f] = local[SeqThread].patient[f]
        /\ \A f \in {"age", "avg_glucose_level", "bmi"} :
              NoFloat(local[SeqThread].patient, f) =>
                  prepare_features(local[SeqThread].patient).row[f] = PyFloat(0, 0)
        /\ NoInt(local[SeqThread].patient, "hypertension") =>
              prepare_features(local[SeqThread].patient).row.hypertension = PyInt(0)

(***************************************************************************)
(* Properties of the stored records.                                       *)
(***************************************************************************)
\* x is a number (never nan) with 0 <= x <= max
NumberIn(x, max) ==
    \/ x.t = "int" /\ x.n >= 0 /\ x.n <= max
    \/ x.t = "float" /\ x.k = "fin" /\ ~FloatLtZero(x) /\ ~FloatGt(x, max)
EnumFieldDomain ==
    [gender |-> valid_genders,
     ever_married |-> valid_married,
     work_type |-> valid_work_types,
     residence_type |-> valid_residence_types,
     smoking_status |-> valid_statuses]
InDataModel(doc) ==
    /\ doc.age.t = "int" /\ doc.age.n \in 0..MAX_AGE
    /\ doc.hypertension.t = "int" /\ doc.hypertension.n \in {0, 1}
    /\ NumberIn(doc.avg_glucose_level, MAX_GLUCOSE)
    /\ NumberIn(doc.bmi, MAX_BMI)
    /\ \A f \in DOMAIN EnumFieldDomain : IsMember(doc[f], EnumFieldDomain[f])

\* C23 as stated: every record written by add_patient or edit_patient has
\* all its fields inside the data-model domains: age an integer in 0..150,
\* hypertension 0 or 1, avg_glucose_level a number in [0, 500], bmi a number
\* in [0, 100] and never a not-a-number value, each enum field a member of
\* its domain.
C23_RecordsInDomain ==
    \A o \in DOMAIN patients : InDataModel(patients[o])

====
